---- MODULE Spec2Model ----
(***************************************************************************)
(* A model of the chess rule engine of ADP424/Chess (src/chess.py) and of  *)
(* the game loops that drive it (src/GUI.py, src/chess_bots.py).           *)
(*                                                                         *)
(* The state is one ChessBoard instance: its grid of ChessPiece objects,   *)
(* the turn counter, last_move and the two history lists.  Move generation *)
(* (find_legal_moves and its per-piece helpers) is a family of operators   *)
(* that build the same lists of Move records, in the same order, as the    *)
(* Python methods; make_move is an operator on the whole board state.      *)
(*                                                                         *)
(* board, captured_pieces and move_list hold the contents of the three     *)
(* objects the constructor's defaults name (DEFAULT_BOARD and the two list *)
(* literals of its signature).  Python evaluates a default once, when the  *)
(* function is defined, so every ChessBoard() refers to these same three   *)
(* objects; other_board holds the attributes a second ChessBoard() has of  *)
(* its own.  bot_move is the value a bot's get_move returned last.         *)
(***************************************************************************)
EXTENDS Integers, Sequences, FiniteSets, TLC

VARIABLES board, curr_player, last_move, captured_pieces, move_list,
          game_running, query, legal_moves, other_board, bot_move

engine == <<board, curr_player, last_move, captured_pieces, move_list>>
vars == <<board, curr_player, last_move, captured_pieces, move_list,
          game_running, query, legal_moves, other_board, bot_move>>

----------------------------------------------------------------------------
(* Program constants: the defaults of ChessBoard.__init__.                  *)
board_width == 8
board_height == 8
num_players == 2

(* Bounds of the exploration.                                               *)
MaxFree == 1
MaxFreeQuery == 0
QueryMargin == 1

Rows == 0 .. (board_height - 1)
Cols == 0 .. (board_width - 1)
Squares == Rows \X Cols

----------------------------------------------------------------------------
(* Piece/Color model.  A live occupant of the grid is a record              *)
(* [piece, color, has_moved]; its captured_by is always None and is left    *)
(* out.  A captured_piece carried by a Move additionally has captured_by,   *)
(* which is NoneRef until make_move stamps it.                              *)
NoneRef == [piece |-> "None", color |-> "None", has_moved |-> FALSE]

ChessPiece(p, col) == [piece |-> p, color |-> col, has_moved |-> FALSE]

EmptyPiece == ChessPiece("EMPTY", "NONE")

(* Color(n): the enum lookup the game loops use to map curr_player to a     *)
(* color.                                                                   *)
Color(n) == CASE n = 0 -> "NONE" [] n = 1 -> "WHITE" [] n = 2 -> "BLACK"
                 [] OTHER -> "ValueError"

(* copy.deepcopy of a grid occupant, as stored in Move.captured_piece.       *)
deepcopy(pc) == [piece |-> pc.piece, color |-> pc.color,
                 has_moved |-> pc.has_moved, captured_by |-> NoneRef]

(* The shared default captured_piece=ChessPiece() of Move.__init__.         *)
NoCapture == deepcopy(EmptyPiece)

(* Move.__init__ ignoring its capture_location argument.                    *)
MoveAtDestination(to, from, cp, cl, tag) ==
    [to_location |-> to, from_location |-> from, captured_piece |-> cp,
     capture_location |-> to, special_tag |-> tag]

(* Move.__init__ with an explicit capture_location, and with the default    *)
(* capture_location=None, which becomes to_location.                        *)
MoveAt(to, from, cp, cl, tag) ==
    [to_location |-> to, from_location |-> from, captured_piece |-> cp,
     capture_location |-> cl, special_tag |-> tag]

Move(to, from, cp) == MoveAt(to, from, cp, to, "")

----------------------------------------------------------------------------
(* Python list indexing: an index in -n..-1 counts from the end, an index   *)
(* outside -n..n-1 raises IndexError.  IndexError is modelled by the        *)
(* occupant ErrPiece (for reads) and by the move list Raised (for a call    *)
(* that does not return).                                                   *)
PyIndex(i, n) == IF i >= 0 THEN i ELSE i + n

InRange(i, n) == i >= -n /\ i < n

ErrPiece == [piece |-> "IndexError", color |-> "IndexError", has_moved |-> FALSE]

Raised == <<MoveAt(<<-1, -1>>, <<-1, -1>>, NoCapture, <<-1, -1>>, "IndexError")>>

At(b, r, c) ==
    IF InRange(r, board_height) /\ InRange(c, board_width)
    THEN b[<<PyIndex(r, board_height), PyIndex(c, board_width)>>]
    ELSE ErrPiece

Put(b, r, c, pc) ==
    IF InRange(r, board_height) /\ InRange(c, board_width)
    THEN [b EXCEPT ![<<PyIndex(r, board_height), PyIndex(c, board_width)>>] = pc]
    ELSE b

If(cond, mv) == IF cond THEN <<mv>> ELSE <<>>

----------------------------------------------------------------------------
(* ChessBoard.DEFAULT_BOARD                                                 *)
BackRank == <<"ROOK", "KNIGHT", "BISHOP", "QUEEN", "KING", "BISHOP", "KNIGHT", "ROOK">>

DEFAULT_BOARD ==
    [sq \in Squares |->
        CASE sq[1] = 0 -> ChessPiece(BackRank[sq[2] + 1], "BLACK")
          [] sq[1] = 1 -> ChessPiece("PAWN", "BLACK")
          [] sq[1] = 6 -> ChessPiece("PAWN", "WHITE")
          [] sq[1] = 7 -> ChessPiece(BackRank[sq[2] + 1], "WHITE")
          [] OTHER -> EmptyPiece]

(* The default last_move=Move((-1, -1), (-1, -1)) of ChessBoard.__init__.   *)
NoMove == Move(<<-1, -1>>, <<-1, -1>>, NoCapture)

----------------------------------------------------------------------------
(* Move generator                                                           *)

(* The row guard of the pawn branches: "row > 0" / "row > 1" for White      *)
(* (dir = -1) and "row < board_height - 1" / "row < board_height - 2" for   *)
(* Black (dir = 1).                                                         *)
PawnRowGuard(row, dir, k) ==
    IF dir = -1 THEN row > k - 1 ELSE row < board_height - k

(* One diagonal of a pawn: the ordinary capture, else (elif) en passant.    *)
(* side is -1 for the left diagonal and 1 for the right one.                *)
PawnSideGuard(col, side) ==
    IF side = -1 THEN col > 0 ELSE col < board_width - 1

(* One diagonal of a pawn without the en passant branch.                    *)
PawnDiagonalCaptureOnly(b, lm, row, col, dir, side) ==
    IF /\ PawnRowGuard(row, dir, 1)
       /\ PawnSideGuard(col, side)
       /\ At(b, row + dir, col + side).color # "NONE"
       /\ At(b, row + dir, col + side).color # At(b, row, col).color
    THEN <<Move(<<row + dir, col + side>>, <<row, col>>,
                deepcopy(At(b, row + dir, col + side)))>>
    ELSE <<>>

PawnDiagonal(b, lm, row, col, dir, side) ==
    IF /\ PawnRowGuard(row, dir, 1)
       /\ PawnSideGuard(col, side)
       /\ At(b, row + dir, col + side).color # "NONE"
       /\ At(b, row + dir, col + side).color # At(b, row, col).color
    THEN <<Move(<<row + dir, col + side>>, <<row, col>>,
                deepcopy(At(b, row + dir, col + side)))>>
    ELSE IF /\ PawnRowGuard(row, dir, 1)
            /\ PawnSideGuard(col, side)
            /\ lm.to_location = <<row, col + side>>
            /\ lm.from_location = <<row + 2 * dir, col + side>>
            /\ At(b, row, col + side).piece = "PAWN"
            /\ At(b, row, col + side).color # "NONE"
            /\ At(b, row, col + side).color # At(b, row, col).color
    THEN <<MoveAt(<<row + dir, col + side>>, <<row, col>>,
                  deepcopy(At(b, row, col + side)), <<row, col + side>>, "")>>
    ELSE <<>>

PawnForwardAnyTime(b, row, col, dir) ==
    IF PawnRowGuard(row, dir, 1) /\ At(b, row + dir, col).piece = "EMPTY"
    THEN <<Move(<<row + dir, col>>, <<row, col>>, NoCapture)>>
         \o If(/\ PawnRowGuard(row, dir, 2)
               /\ At(b, row + 2 * dir, col).piece = "EMPTY",
               Move(<<row + 2 * dir, col>>, <<row, col>>, NoCapture))
    ELSE <<>>

PawnForward(b, row, col, dir) ==
    IF PawnRowGuard(row, dir, 1) /\ At(b, row + dir, col).piece = "EMPTY"
    THEN <<Move(<<row + dir, col>>, <<row, col>>, NoCapture)>>
         \o If(/\ PawnRowGuard(row, dir, 2)
               /\ At(b, row + 2 * dir, col).piece = "EMPTY"
               /\ ~At(b, row, col).has_moved,
               Move(<<row + 2 * dir, col>>, <<row, col>>, NoCapture))
    ELSE <<>>

(* The pawn generator not consulting last_move: each diagonal is tried as   *)
(* if the neighbour on that side had just advanced two squares.             *)
find_legal_pawn_moves_any_neighbour(b, lm, row, col) ==
    IF At(b, row, col).color = "WHITE"
    THEN PawnForward(b, row, col, -1)
         \o PawnDiagonal(b, Move(<<row, col - 1>>, <<row - 2, col - 1>>, NoCapture), row, col, -1, -1)
         \o PawnDiagonal(b, Move(<<row, col + 1>>, <<row - 2, col + 1>>, NoCapture), row, col, -1, 1)
    ELSE IF At(b, row, col).color = "BLACK"
    THEN PawnForward(b, row, col, 1)
         \o PawnDiagonal(b, Move(<<row, col - 1>>, <<row + 2, col - 1>>, NoCapture), row, col, 1, -1)
         \o PawnDiagonal(b, Move(<<row, col + 1>>, <<row + 2, col + 1>>, NoCapture), row, col, 1, 1)
    ELSE <<>>

find_legal_pawn_moves(b, lm, row, col) ==
    IF At(b, row, col).color = "WHITE"
    THEN PawnForward(b, row, col, -1)
         \o PawnDiagonal(b, lm, row, col, -1, -1)
         \o PawnDiagonal(b, lm, row, col, -1, 1)
    ELSE IF At(b, row, col).color = "BLACK"
    THEN PawnForward(b, row, col, 1)
         \o PawnDiagonal(b, lm, row, col, 1, -1)
         \o PawnDiagonal(b, lm, row, col, 1, 1)
    ELSE <<>>

(* The bounds guard with the negative offsets tested one square too far.    *)
OffsetGuardTooFar(x, d, n) ==
    CASE d < 0 -> x > -d
      [] d > 0 -> x < n - d
      [] OTHER -> TRUE

(* The bounds guard of one knight or king offset, as the code writes it:    *)
(* "row > 0" for -1, "row > 1" for -2, "row < board_height - 1" for +1,     *)
(* "row < board_height - 2" for +2, and no condition for 0.                 *)
OffsetGuard(x, d, n) ==
    CASE d < 0 -> x > -d - 1
      [] d > 0 -> x < n - d
      [] OTHER -> TRUE

(* One step of the knight and king generators without its color test.       *)
StepMoveAnyTarget(b, row, col, dr, dc) ==
    If(/\ OffsetGuard(row, dr, board_height)
       /\ OffsetGuard(col, dc, board_width),
       Move(<<row + dr, col + dc>>, <<row, col>>, deepcopy(At(b, row + dr, col + dc))))

(* One "if ... moves.append(...)" of the knight and king generators.  The   *)
(* conjunct "self.board[r][c]" is the truth value of an object, always true.*)
StepMove(b, row, col, dr, dc) ==
    If(/\ OffsetGuard(row, dr, board_height)
       /\ OffsetGuard(col, dc, board_width)
       /\ At(b, row, col).color # At(b, row + dr, col + dc).color,
       Move(<<row + dr, col + dc>>, <<row, col>>, deepcopy(At(b, row + dr, col + dc))))

find_legal_knight_moves(b, row, col) ==
    StepMove(b, row, col, -1, -2) \o StepMove(b, row, col, -2, -1)
    \o StepMove(b, row, col, -1, 2) \o StepMove(b, row, col, -2, 1)
    \o StepMove(b, row, col, 1, -2) \o StepMove(b, row, col, 2, -1)
    \o StepMove(b, row, col, 1, 2) \o StepMove(b, row, col, 2, 1)

(* One ray of the rook and bishop generators: the while loop that starts at *)
(* (r, c) and steps by (dr, dc).                                            *)
RayGuardShort(r, c, dr, dc) ==
    /\ (dr = -1 => r > 0)
    /\ (dr = 1 => r < board_height - 2)
    /\ (dc = -1 => c > 0)
    /\ (dc = 1 => c < board_width - 1)

RayGuard(r, c, dr, dc) ==
    /\ (dr = -1 => r > 0)
    /\ (dr = 1 => r < board_height - 1)
    /\ (dc = -1 => c > 0)
    /\ (dc = 1 => c < board_width - 1)

RECURSIVE Ray(_, _, _, _, _, _, _)
Ray(b, row, col, r, c, dr, dc) ==
    IF ~RayGuard(r, c, dr, dc) THEN <<>>
    ELSE IF At(b, r + dr, c + dc).piece = "EMPTY"
    THEN <<Move(<<r + dr, c + dc>>, <<row, col>>, NoCapture)>>
         \o Ray(b, row, col, r + dr, c + dc, dr, dc)
    ELSE IF At(b, r + dr, c + dc).color # At(b, row, col).color
    THEN <<Move(<<r + dr, c + dc>>, <<row, col>>, deepcopy(At(b, r + dr, c + dc)))>>
    ELSE <<>>

find_legal_rook_moves(b, row, col) ==
    Ray(b, row, col, row, col, 0, -1) \o Ray(b, row, col, row, col, 0, 1)
    \o Ray(b, row, col, row, col, -1, 0) \o Ray(b, row, col, row, col, 1, 0)

find_legal_bishop_moves(b, row, col) ==
    Ray(b, row, col, row, col, -1, -1) \o Ray(b, row, col, row, col, -1, 1)
    \o Ray(b, row, col, row, col, 1, -1) \o Ray(b, row, col, row, col, 1, 1)

find_legal_king_moves(b, row, col) ==
    StepMove(b, row, col, -1, -1) \o StepMove(b, row, col, -1, 0)
    \o StepMove(b, row, col, -1, 1) \o StepMove(b, row, col, 0, -1)
    \o StepMove(b, row, col, 0, 1) \o StepMove(b, row, col, 1, -1)
    \o StepMove(b, row, col, 1, 0) \o StepMove(b, row, col, 1, 1)

(* The king-side castle with the king sent to the rook's corner.            *)
KingSideCastleToCorner(b, row, col) ==
    If(/\ col = 4
       /\ (row = 0 \/ row = board_height - 1)
       /\ At(b, row, col + 1).piece = "EMPTY"
       /\ At(b, row, col + 2).piece = "EMPTY"
       /\ ~At(b, row, col + 3).has_moved
       /\ ~At(b, row, col).has_moved,
       MoveAt(<<row, col + 3>>, <<row, col>>, NoCapture, <<row, col + 3>>, "castle"))

(* king-side castle: the if at chess.py 549-551                             *)
KingSideCastle(b, row, col) ==
    If(/\ col = 4
       /\ (row = 0 \/ row = board_height - 1)
       /\ At(b, row, col + 1).piece = "EMPTY"
       /\ At(b, row, col + 2).piece = "EMPTY"
       /\ ~At(b, row, col + 3).has_moved
       /\ ~At(b, row, col).has_moved,
       MoveAt(<<row, col + 2>>, <<row, col>>, NoCapture, <<row, col + 2>>, "castle"))

(* queen-side castle: the if at chess.py 554-556                            *)
QueenSideCastle(b, row, col) ==
    If(/\ col = 4
       /\ (row = 0 \/ row = board_height - 1)
       /\ At(b, row, col - 1).piece = "EMPTY"
       /\ At(b, row, col - 2).piece = "EMPTY"
       /\ At(b, row, col - 3).piece = "EMPTY"
       /\ ~At(b, row, col - 4).has_moved
       /\ ~At(b, row, col).has_moved,
       MoveAt(<<row, col - 2>>, <<row, col>>, NoCapture, <<row, col - 2>>, "castle"))

find_legal_castle_moves(b, row, col) ==
    KingSideCastle(b, row, col) \o QueenSideCastle(b, row, col)

(* The dispatch with the Queen left out of the bishop test.                 *)
DispatchQueenAsRook(b, lm, row, col) ==
    (IF At(b, row, col).piece = "PAWN"
     THEN find_legal_pawn_moves(b, lm, row, col) ELSE <<>>)
    \o (IF At(b, row, col).piece = "KNIGHT"
        THEN find_legal_knight_moves(b, row, col) ELSE <<>>)
    \o (IF At(b, row, col).piece = "ROOK" \/ At(b, row, col).piece = "QUEEN"
        THEN find_legal_rook_moves(b, row, col) ELSE <<>>)
    \o (IF At(b, row, col).piece = "BISHOP"
        THEN find_legal_bishop_moves(b, row, col) ELSE <<>>)
    \o (IF At(b, row, col).piece = "KING"
        THEN find_legal_king_moves(b, row, col) \o find_legal_castle_moves(b, row, col)
        ELSE <<>>)

(* The dispatch of find_legal_moves once the square is known to hold a      *)
(* piece: the five independent ifs on the occupant's kind.                  *)
Dispatch(b, lm, row, col) ==
    (IF At(b, row, col).piece = "PAWN"
     THEN find_legal_pawn_moves(b, lm, row, col) ELSE <<>>)
    \o (IF At(b, row, col).piece = "KNIGHT"
        THEN find_legal_knight_moves(b, row, col) ELSE <<>>)
    \o (IF At(b, row, col).piece = "ROOK" \/ At(b, row, col).piece = "QUEEN"
        THEN find_legal_rook_moves(b, row, col) ELSE <<>>)
    \o (IF At(b, row, col).piece = "BISHOP" \/ At(b, row, col).piece = "QUEEN"
        THEN find_legal_bishop_moves(b, row, col) ELSE <<>>)
    \o (IF At(b, row, col).piece = "KING"
        THEN find_legal_king_moves(b, row, col) \o find_legal_castle_moves(b, row, col)
        ELSE <<>>)

(* The out-of-bounds test without "row < 0".                                *)
OutOfBoundsNoNegativeRow(row, col) ==
    row >= board_height \/ col < 0 \/ col >= board_width

(* The out-of-bounds test at chess.py 165.                                  *)
OutOfBounds(row, col) ==
    row < 0 \/ row >= board_height \/ col < 0 \/ col >= board_width

find_legal_moves(b, lm, row, col) ==
    IF OutOfBounds(row, col) THEN <<>>
    ELSE IF At(b, row, col) = ErrPiece THEN Raised
    ELSE IF At(b, row, col).piece = "EMPTY" THEN <<>>
    ELSE Dispatch(b, lm, row, col)

----------------------------------------------------------------------------
(* Move applier                                                             *)

(* The relocation without its first statement: has_moved is left as it is.  *)
SetMovedSkipped(b, r, c) == Put(b, r, c, At(b, r, c))

(* "self.board[r][c].has_moved = True" on the object stored at (r, c).      *)
SetMoved(b, r, c) == Put(b, r, c, [At(b, r, c) EXCEPT !.has_moved = TRUE])

(* A relocation that does not put a fresh ChessPiece() on the origin.       *)
RelocateKeepsOrigin(b, fr, fc, tr, tc) ==
    LET b1 == SetMoved(b, fr, fc)
    IN Put(b1, tr, tc, At(b1, fr, fc))

(* The three statements that relocate an occupant (chess.py 579-581,        *)
(* 585-587, 591-593, 604-606): mark it moved, store it at the destination,  *)
(* put a fresh ChessPiece() on the origin.                                  *)
Relocate(b, fr, fc, tr, tc) ==
    LET b1 == SetMoved(b, fr, fc)
        b2 == Put(b1, tr, tc, At(b1, fr, fc))
    IN Put(b2, fr, fc, EmptyPiece)

(* The castle branch without the relocation of the rook.                    *)
CastleBoardKingOnly(b, move) ==
    Relocate(b, move.from_location[1], move.from_location[2],
             move.to_location[1], move.to_location[2])

(* The castle branch of make_move.                                          *)
CastleBoard(b, move) ==
    LET to == move.to_location
        from == move.from_location
        b1 == Relocate(b, from[1], from[2], to[1], to[2])
    IN IF to[2] < from[2]
       THEN Relocate(b1, to[1], to[2] - 2, to[1], to[2] + 1)
       ELSE Relocate(b1, to[1], to[2] + 1, to[1], to[2] - 1)

(* The promotion test without its second disjunct: only a pawn on row 0 is  *)
(* promoted.                                                                *)
PromotionTestRowZero(b, to) ==
    At(b, to[1], to[2]).piece = "PAWN" /\ to[1] = 0

(* The promotion test at chess.py 609-610.  Python parses "a and b or c"    *)
(* as "(a and b) or c".                                                     *)
PromotionTest(b, to) ==
    (At(b, to[1], to[2]).piece = "PAWN" /\ to[1] = 0) \/ to[1] = board_height - 1

(* The standard branch reading the promoted piece's color from the vacated  *)
(* origin square.                                                           *)
StandardBoardColorOfOrigin(b, move) ==
    LET to == move.to_location
        from == move.from_location
        cl == move.capture_location
        b1 == IF move.captured_piece.piece # "EMPTY"
              THEN Put(b, cl[1], cl[2], EmptyPiece) ELSE b
        b2 == Relocate(b1, from[1], from[2], to[1], to[2])
    IN IF PromotionTest(b2, to)
       THEN Put(b2, to[1], to[2], ChessPiece("QUEEN", At(b2, from[1], from[2]).color))
       ELSE b2

(* The standard branch of make_move.                                        *)
StandardBoard(b, move) ==
    LET to == move.to_location
        from == move.from_location
        cl == move.capture_location
        b1 == IF move.captured_piece.piece # "EMPTY"
              THEN Put(b, cl[1], cl[2], EmptyPiece) ELSE b
        b2 == Relocate(b1, from[1], from[2], to[1], to[2])
    IN IF PromotionTest(b2, to)
       THEN Put(b2, to[1], to[2], ChessPiece("QUEEN", At(b2, to[1], to[2]).color))
       ELSE b2

(* The capture bookkeeping without its "is not EMPTY" test: every standard  *)
(* move appends its captured_piece.                                         *)
CapturedAlways(b, cps, move) ==
    IF move.special_tag # "castle"
    THEN Append(cps, [move.captured_piece EXCEPT
                        !.captured_by = At(b, move.from_location[1], move.from_location[2])])
    ELSE cps

(* The capture bookkeeping at chess.py 598-600: captured_by is stamped with *)
(* the occupant of from_location and a deep copy is appended, before the    *)
(* mover is marked moved.                                                   *)
Captured(b, cps, move) ==
    IF move.special_tag # "castle" /\ move.captured_piece.piece # "EMPTY"
    THEN Append(cps, [move.captured_piece EXCEPT
                        !.captured_by = At(b, move.from_location[1], move.from_location[2])])
    ELSE cps

(* The recorded move rebuilt with the default capture_location instead of   *)
(* being copied.                                                            *)
StampedDefaultCapture(b, move) ==
    IF move.special_tag # "castle" /\ move.captured_piece.piece # "EMPTY"
    THEN [move EXCEPT !.capture_location = move.to_location,
                      !.captured_piece.captured_by =
            [At(b, move.from_location[1], move.from_location[2]) EXCEPT !.has_moved = TRUE]]
    ELSE move

(* The Move object as copy.deepcopy sees it at chess.py 614-615: after a    *)
(* capture its captured_piece.captured_by refers to the mover, which by     *)
(* then has has_moved set.                                                  *)
Stamped(b, move) ==
    IF move.special_tag # "castle" /\ move.captured_piece.piece # "EMPTY"
    THEN [move EXCEPT !.captured_piece.captured_by =
            [At(b, move.from_location[1], move.from_location[2]) EXCEPT !.has_moved = TRUE]]
    ELSE move

(* The turn counter update with "<=" for "<": the counter runs past         *)
(* num_players.                                                             *)
NextPlayerOffByOne(cp) == IF cp <= num_players THEN cp + 1 ELSE 1

(* The turn counter update at chess.py 616-619.                             *)
NextPlayer(cp) == IF cp < num_players THEN cp + 1 ELSE 1

(* make_move stamping captured_by after the mover has been relocated: the   *)
(* occupant of from_location is by then the fresh ChessPiece().             *)
make_move_stamp_after(S, move) ==
    [board |-> IF move.special_tag = "castle"
               THEN CastleBoard(S.board, move)
               ELSE StandardBoard(S.board, move),
     captured_pieces |-> Captured(StandardBoard(S.board, move), S.captured_pieces, move),
     move_list |-> Append(S.move_list, Stamped(S.board, move)),
     last_move |-> Stamped(S.board, move),
     curr_player |-> NextPlayer(S.curr_player)]

(* make_move as a function of the board state S (a record of the five       *)
(* attributes it touches).                                                  *)
make_move(S, move) ==
    [board |-> IF move.special_tag = "castle"
               THEN CastleBoard(S.board, move)
               ELSE StandardBoard(S.board, move),
     captured_pieces |-> Captured(S.board, S.captured_pieces, move),
     move_list |-> Append(S.move_list, Stamped(S.board, move)),
     last_move |-> Stamped(S.board, move),
     curr_player |-> NextPlayer(S.curr_player)]

(* The squares make_move indexes the grid with, for reading or writing.     *)
MakeMoveSquares(move) ==
    LET to == move.to_location
        from == move.from_location
    IN IF move.special_tag = "castle"
       THEN {from, to}
            \cup (IF to[2] < from[2]
                  THEN {<<to[1], to[2] - 2>>, <<to[1], to[2] + 1>>}
                  ELSE {<<to[1], to[2] + 1>>, <<to[1], to[2] - 1>>})
       ELSE {from, to}
            \cup (IF move.captured_piece.piece # "EMPTY"
                  THEN {move.capture_location} ELSE {})

(* The board state as a record.                                             *)
State ==
    [board |-> board, captured_pieces |-> captured_pieces, move_list |-> move_list,
     last_move |-> last_move, curr_player |-> curr_player]

----------------------------------------------------------------------------
(* The game loop                                                            *)

(* The lines of play the exploration follows before it branches freely:     *)
(* each is a sequence of <<from, to>> clicks, every one of them a move the  *)
(* generator offers in the position it is played in.                        *)
(* 1.e4 a6 2.e5 d5: a Black pawn lands beside the White pawn on e5.         *)
OpenEnPassant ==
    << <<(<<6, 4>>), (<<4, 4>>)>>, <<(<<1, 0>>), (<<2, 0>>)>>,
       <<(<<4, 4>>), (<<3, 4>>)>>, <<(<<1, 3>>), (<<3, 3>>)>> >>

(* 1.a3 d5 2.a4 d4 3.e4: a White pawn lands beside the Black pawn on d4.    *)
OpenBlackEnPassant ==
    << <<(<<6, 0>>), (<<5, 0>>)>>, <<(<<1, 3>>), (<<3, 3>>)>>,
       <<(<<5, 0>>), (<<4, 0>>)>>, <<(<<3, 3>>), (<<4, 3>>)>>,
       <<(<<6, 4>>), (<<4, 4>>)>> >>

(* 1.Nf3 a6 2.g3 a5 3.Bg2 a4: White may castle king-side.                   *)
OpenCastle ==
    << <<(<<7, 6>>), (<<5, 5>>)>>, <<(<<1, 0>>), (<<2, 0>>)>>,
       <<(<<6, 6>>), (<<5, 6>>)>>, <<(<<2, 0>>), (<<3, 0>>)>>,
       <<(<<7, 5>>), (<<6, 6>>)>>, <<(<<3, 0>>), (<<4, 0>>)>> >>

(* 1.d4 a6 2.Qd3 a5 3.Bd2 a4 4.Nc3 a3: White may castle queen-side.         *)
OpenQueenCastle ==
    << <<(<<6, 3>>), (<<4, 3>>)>>, <<(<<1, 0>>), (<<2, 0>>)>>,
       <<(<<7, 3>>), (<<5, 3>>)>>, <<(<<2, 0>>), (<<3, 0>>)>>,
       <<(<<7, 2>>), (<<6, 3>>)>>, <<(<<3, 0>>), (<<4, 0>>)>>,
       <<(<<7, 1>>), (<<5, 2>>)>>, <<(<<4, 0>>), (<<5, 0>>)>> >>

(* 1.a3 Nf6 2.a4 g6 3.a5 Bg7 4.a6: Black may castle king-side.              *)
OpenBlackCastle ==
    << <<(<<6, 0>>), (<<5, 0>>)>>, <<(<<0, 6>>), (<<2, 5>>)>>,
       <<(<<5, 0>>), (<<4, 0>>)>>, <<(<<1, 6>>), (<<2, 6>>)>>,
       <<(<<4, 0>>), (<<3, 0>>)>>, <<(<<0, 5>>), (<<1, 6>>)>>,
       <<(<<3, 0>>), (<<2, 0>>)>> >>

(* 1.h4 a6 2.Rh3 a5 3.Nf3 a4 4.g3 a3 5.Bg2: the king-side rook has left its *)
(* corner and the squares between king and corner are clear.                *)
OpenRookAway ==
    << <<(<<6, 7>>), (<<4, 7>>)>>, <<(<<1, 0>>), (<<2, 0>>)>>,
       <<(<<7, 7>>), (<<5, 7>>)>>, <<(<<2, 0>>), (<<3, 0>>)>>,
       <<(<<7, 6>>), (<<5, 5>>)>>, <<(<<3, 0>>), (<<4, 0>>)>>,
       <<(<<6, 6>>), (<<5, 6>>)>>, <<(<<4, 0>>), (<<5, 0>>)>>,
       <<(<<7, 5>>), (<<6, 6>>)>> >>

(* 1.h4 a6 2.h5 a5 3.h6 a4 4.hxg7 a3: a White pawn stands on g7.            *)
OpenWhitePromotion ==
    << <<(<<6, 7>>), (<<4, 7>>)>>, <<(<<1, 0>>), (<<2, 0>>)>>,
       <<(<<4, 7>>), (<<3, 7>>)>>, <<(<<2, 0>>), (<<3, 0>>)>>,
       <<(<<3, 7>>), (<<2, 7>>)>>, <<(<<3, 0>>), (<<4, 0>>)>>,
       <<(<<2, 7>>), (<<1, 6>>)>>, <<(<<4, 0>>), (<<5, 0>>)>> >>

(* 1.h3 a5 2.h4 a4 3.h5 a3 4.h6 axb2 5.g3: a Black pawn stands on b2.       *)
OpenBlackPromotion ==
    << <<(<<6, 7>>), (<<5, 7>>)>>, <<(<<1, 0>>), (<<3, 0>>)>>,
       <<(<<5, 7>>), (<<4, 7>>)>>, <<(<<3, 0>>), (<<4, 0>>)>>,
       <<(<<4, 7>>), (<<3, 7>>)>>, <<(<<4, 0>>), (<<5, 0>>)>>,
       <<(<<3, 7>>), (<<2, 7>>)>>, <<(<<5, 0>>), (<<6, 1>>)>>,
       <<(<<6, 6>>), (<<5, 6>>)>> >>

Openings ==
    {<<>>, OpenEnPassant, OpenBlackEnPassant, OpenCastle, OpenQueenCastle, OpenBlackCastle,
     OpenRookAway, OpenWhitePromotion, OpenBlackPromotion}

Min(a, b) == IF a < b THEN a ELSE b

(* move may be played next: the game so far and move follow one of the      *)
(* lines, and leave it by at most maxfree plies.                            *)
Follows(hist, move, L) ==
    /\ \A i \in 1 .. Min(Len(hist), Len(L)) :
          <<hist[i].from_location, hist[i].to_location>> = L[i]
    /\ Len(hist) < Len(L) =>
          <<move.from_location, move.to_location>> = L[Len(hist) + 1]

(* Some line still allows one more ply.                                     *)
CanContinue(hist, maxfree) ==
    \E L \in Openings :
        /\ Len(hist) + 1 <= Len(L) + maxfree
        /\ \A i \in 1 .. Min(Len(hist), Len(L)) :
              <<hist[i].from_location, hist[i].to_location>> = L[i]

Allowed(hist, move, maxfree) ==
    \E L \in Openings : Len(hist) + 1 <= Len(L) + maxfree /\ Follows(hist, move, L)

(* A second ChessBoard instance before it is constructed.                   *)
NoBoard == [constructed |-> FALSE, curr_player |-> 1, last_move |-> NoMove]

Init ==
    /\ board = DEFAULT_BOARD
    /\ curr_player = 1
    /\ last_move = NoMove
    /\ captured_pieces = <<>>
    /\ move_list = <<>>
    /\ game_running = TRUE
    /\ query = <<>>
    /\ legal_moves = <<>>
    /\ other_board = NoBoard
    /\ bot_move = NoMove

(* One iteration of a game loop: the player to move picks one of its own    *)
(* pieces (a click on a square of its color, or the bot's scan of the       *)
(* grid), then one of the moves find_legal_moves returns for it, and the    *)
(* loop calls make_move; the loop ends once a king has been captured.       *)
Turn(maxfree) ==
    /\ game_running
    /\ CanContinue(move_list, maxfree)
    /\ UNCHANGED <<other_board, bot_move>>
    /\ \E sq \in Squares :
        /\ board[sq].color = Color(curr_player)
        /\ LET moves == find_legal_moves(board, last_move, sq[1], sq[2])
           IN \E i \in 1 .. Len(moves) :
                /\ Allowed(move_list, moves[i], maxfree)
                /\ LET S == make_move(State, moves[i])
                   IN /\ board' = S.board
                      /\ curr_player' = S.curr_player
                      /\ last_move' = S.last_move
                      /\ captured_pieces' = S.captured_pieces
                      /\ move_list' = S.move_list
                /\ game_running' = (moves[i].captured_piece.piece # "KING")
                /\ query' = <<>>
                /\ legal_moves' = <<>>

(* A direct call find_legal_moves(row, col) with any coordinates, inside    *)
(* the grid or up to QueryMargin outside it; the returned list is kept      *)
(* until the next move.  A call changes nothing it depends on, so one call  *)
(* per position stands for any number of them.                              *)
QueryCoords == (0 - QueryMargin) .. (board_height - 1 + QueryMargin)

(* A call of find_legal_moves that marks the occupant of the queried square *)
(* as moved.                                                                *)
QueryMarksMoved ==
    /\ game_running
    /\ query = <<>>
    /\ \E row \in 0 .. (board_height - 1), col \in 0 .. (board_width - 1) :
        /\ query' = <<row, col>>
        /\ legal_moves' = find_legal_moves(board, last_move, row, col)
        /\ board' = SetMoved(board, row, col)
    /\ UNCHANGED <<curr_player, last_move, captured_pieces, move_list, game_running>>
    /\ UNCHANGED <<other_board, bot_move>>

Query ==
    /\ game_running
    /\ query = <<>>
    /\ \E row \in QueryCoords, col \in QueryCoords :
        /\ query' = <<row, col>>
        /\ legal_moves' = find_legal_moves(board, last_move, row, col)
    /\ UNCHANGED <<board, curr_player, last_move, captured_pieces, move_list, game_running>>
    /\ UNCHANGED <<other_board, bot_move>>

Play == Turn(MaxFree)

Next == Play

Spec == Init /\ [][Next]_vars

PlayLine == Turn(MaxFreeQuery)

NextQuery == PlayLine \/ Query

SpecQuery == Init /\ [][NextQuery]_vars

(* Grids handed to the constructor's "board" argument: one piece under      *)
(* study on any square of an otherwise empty grid, alone or with one other  *)
(* piece on a square its generator looks at.                                *)
EmptyBoard == [sq \in Squares |-> EmptyPiece]

SubjectKinds == {"ROOK", "QUEEN", "KNIGHT", "KING"}

OtherKinds == {"PAWN"}

PlayerColors == {Color(n) : n \in 1 .. num_players}

OnLines(a, s) ==
    /\ s # a
    /\ \/ s[1] = a[1]
       \/ s[2] = a[2]
       \/ s[1] - a[1] = s[2] - a[2]
       \/ s[1] - a[1] = a[2] - s[2]

Scanned(kind, a) ==
    CASE kind = "KNIGHT" ->
             {s \in Squares : {(s[1] - a[1]) * (s[1] - a[1]), (s[2] - a[2]) * (s[2] - a[2])} = {1, 4}}
      [] kind = "KING" ->
             {s \in Squares : s # a /\ (s[1] - a[1]) \in -1 .. 1 /\ (s[2] - a[2]) \in -1 .. 1}
      [] OTHER -> {s \in Squares : OnLines(a, s)}

Place(b, sq, pc) == [s \in Squares |-> IF s = sq THEN pc ELSE b[s]]

Subject(a, kind, col) == Place(EmptyBoard, a, ChessPiece(kind, col))

InitBoards ==
    /\ \E a \in Squares, kind \in SubjectKinds, col \in PlayerColors :
           \/ board = Subject(a, kind, col)
           \/ \E s \in Scanned(kind, a), k2 \in OtherKinds, c2 \in PlayerColors :
                  board = Place(Subject(a, kind, col), s, ChessPiece(k2, c2))
    /\ curr_player = 1
    /\ last_move = NoMove
    /\ captured_pieces = <<>>
    /\ move_list = <<>>
    /\ game_running = TRUE
    /\ query = <<>>
    /\ legal_moves = <<>>
    /\ other_board = NoBoard
    /\ bot_move = NoMove

(* find_legal_moves called on the square of the piece under study.          *)
QuerySubject ==
    /\ query = <<>>
    /\ \E sq \in Squares :
        /\ board[sq].piece \in SubjectKinds
        /\ query' = sq
        /\ legal_moves' = find_legal_moves(board, last_move, sq[1], sq[2])
    /\ UNCHANGED <<board, curr_player, last_move, captured_pieces, move_list, game_running>>
    /\ UNCHANGED <<other_board, bot_move>>

NextBoards == QuerySubject

SpecBoards == InitBoards /\ [][NextBoards]_vars

(* A second ChessBoard() is constructed while the first is in use, as a     *)
(* second game started in the same process would (GUI.py 445).  Its board,  *)
(* captured_pieces and move_list attributes are bound to the default        *)
(* objects, whatever they hold by now; curr_player and last_move are new.   *)
NewBoard ==
    /\ ~other_board.constructed
    /\ other_board' = [constructed |-> TRUE, curr_player |-> 1, last_move |-> NoMove]
    /\ UNCHANGED <<board, curr_player, last_move, captured_pieces, move_list>>
    /\ UNCHANGED <<game_running, query, legal_moves, bot_move>>

(* The board state of the second instance as a record.                      *)
OtherState ==
    [board |-> board, captured_pieces |-> captured_pieces, move_list |-> move_list,
     last_move |-> other_board.last_move, curr_player |-> other_board.curr_player]

(* One iteration of a game loop on the second instance.                     *)
PlayOther ==
    /\ other_board.constructed
    /\ CanContinue(move_list, MaxFreeQuery)
    /\ \E sq \in Squares :
        /\ board[sq].color = Color(other_board.curr_player)
        /\ LET moves == find_legal_moves(board, other_board.last_move, sq[1], sq[2])
           IN \E i \in 1 .. Len(moves) :
                /\ Allowed(move_list, moves[i], MaxFreeQuery)
                /\ LET S == make_move(OtherState, moves[i])
                   IN /\ board' = S.board
                      /\ captured_pieces' = S.captured_pieces
                      /\ move_list' = S.move_list
                      /\ other_board' = [other_board EXCEPT !.curr_player = S.curr_player,
                                                            !.last_move = S.last_move]
    /\ UNCHANGED <<curr_player, last_move, game_running, query, legal_moves, bot_move>>

NextTwoBoards == PlayLine \/ NewBoard \/ PlayOther

SpecTwoBoards == Init /\ [][NextTwoBoards]_vars

(* The outcome of a get_move that does not return: random.randint(0, -1),   *)
(* which both bots evaluate when the list they index is empty, raises       *)
(* ValueError.                                                              *)
ValueError == MoveAt(<<-1, -1>>, <<-1, -1>>, NoCapture, <<-1, -1>>, "ValueError")

(* RandomMoveBot.get_move's list: the moves of every square whose occupant  *)
(* has the color of the player to move, in the order of the nested loops,   *)
(* starting at the n-th square.                                             *)
RECURSIVE AllMoves(_)
AllMoves(n) ==
    IF n = board_height * board_width THEN <<>>
    ELSE LET sq == <<n \div board_width, n % board_width>>
         IN (IF board[sq].color = Color(curr_player)
             THEN find_legal_moves(board, last_move, sq[1], sq[2])
             ELSE <<>>) \o AllMoves(n + 1)

(* The rest of an iteration of two_bots_game once get_move has returned     *)
(* move, or has raised: an uncaught exception ends the program.             *)
BotPlays(move) ==
    /\ bot_move' = move
    /\ IF move = ValueError
       THEN /\ game_running' = FALSE
            /\ UNCHANGED <<board, curr_player, last_move, captured_pieces, move_list>>
            /\ UNCHANGED <<query, legal_moves>>
       ELSE /\ LET S == make_move(State, move)
               IN /\ board' = S.board
                  /\ curr_player' = S.curr_player
                  /\ last_move' = S.last_move
                  /\ captured_pieces' = S.captured_pieces
                  /\ move_list' = S.move_list
            /\ game_running' = (move.captured_piece.piece # "KING")
            /\ query' = <<>>
            /\ legal_moves' = <<>>
    /\ UNCHANGED other_board

(* An iteration of two_bots_game in which the bot to move is a              *)
(* RandomMoveBot: any index of its list may be drawn.                       *)
RandomMoveBotTurn ==
    /\ game_running
    /\ CanContinue(move_list, MaxFree)
    /\ LET moves == AllMoves(0)
       IN IF moves = <<>>
          THEN BotPlays(ValueError)
          ELSE \E i \in 1 .. Len(moves) :
                   Allowed(move_list, moves[i], MaxFree) /\ BotPlays(moves[i])

(* An iteration of two_bots_game in which the bot to move is a              *)
(* RandomPieceBot: any of its pieces may be drawn, then any index of that   *)
(* piece's list.                                                            *)
RandomPieceBotTurn ==
    /\ game_running
    /\ CanContinue(move_list, MaxFree)
    /\ LET pieces == {sq \in Squares : board[sq].color = Color(curr_player)}
       IN IF pieces = {}
          THEN BotPlays(ValueError)
          ELSE \E random_piece \in pieces :
                   LET moves == find_legal_moves(board, last_move,
                                                 random_piece[1], random_piece[2])
                   IN IF moves = <<>>
                      THEN BotPlays(ValueError)
                      ELSE \E i \in 1 .. Len(moves) :
                               Allowed(move_list, moves[i], MaxFree) /\ BotPlays(moves[i])

NextBots == RandomMoveBotTurn \/ RandomPieceBotTurn

SpecBots == Init /\ [][NextBots]_vars

----------------------------------------------------------------------------
(* Properties                                                               *)

(* A step of the game loop that called make_move (every Turn clears query,  *)
(* every Query sets it).                                                    *)
MakeMoveCalled == query' = <<>>

(* C1: current_player is always in 1..player_count; every make_move call    *)
(* changes it to current_player + 1, wrapping to 1 after player_count; with *)
(* two players it alternates 1, 2, 1, 2, ... starting from 1.               *)
C1_TurnCycle ==
    /\ [](/\ curr_player \in 1 .. num_players
          /\ (num_players = 2 => curr_player = (Len(move_list) % 2) + 1))
    /\ [][MakeMoveCalled => curr_player' = (curr_player % num_players) + 1]_vars

(* The turn has wrapped: two moves were applied and player 1 is to move.    *)
C1_Witness == Len(move_list) = 2 /\ curr_player = 1

(* C2: each make_move call lengthens move_list by exactly one, lengthens    *)
(* captured_pieces by exactly one when the applied move carries a non-Empty *)
(* captured_piece and leaves it unchanged otherwise; the entries already    *)
(* present stay in place.                                                   *)
C2_HistoryGrowth ==
    [][MakeMoveCalled =>
        /\ Len(move_list') = Len(move_list) + 1
        /\ SubSeq(move_list', 1, Len(move_list)) = move_list
        /\ IF move_list'[Len(move_list')].captured_piece.piece # "EMPTY"
           THEN /\ Len(captured_pieces') = Len(captured_pieces) + 1
                /\ SubSeq(captured_pieces', 1, Len(captured_pieces)) = captured_pieces
           ELSE captured_pieces' = captured_pieces]_vars

(* A capture has been applied after a non-capturing move.                   *)
C2_Witness ==
    /\ Len(captured_pieces) = 1
    /\ Len(move_list) > 1
    /\ last_move.captured_piece.piece # "EMPTY"

(* The moves find_legal_moves returns for square sq in the current state.   *)
MovesFrom(sq) == find_legal_moves(board, last_move, sq[1], sq[2])

(* C3: in every reachable state make_move completes on every move that      *)
(* find_legal_moves returns for any square: every square it indexes the     *)
(* grid with lies inside the grid, and the turn counter advances by one     *)
(* step.                                                                    *)
C3_MakeMoveTotal ==
    \A sq \in Squares :
        LET moves == MovesFrom(sq)
        IN \A i \in 1 .. Len(moves) :
            LET S == make_move(State, moves[i])
            IN /\ moves[i].special_tag # "IndexError"
               /\ MakeMoveSquares(moves[i]) \subseteq Squares
               /\ S.curr_player = (curr_player % num_players) + 1
               /\ Len(S.move_list) = Len(move_list) + 1

(* A castle, the move that touches four squares, has been applied and the   *)
(* turn has passed to the other player.                                     *)
C3_Witness ==
    /\ last_move.special_tag = "castle"
    /\ MakeMoveSquares(last_move) \subseteq Squares
    /\ Cardinality(MakeMoveSquares(last_move)) = 4
    /\ curr_player = 2

(* The row farthest from a color's start.                                   *)
FarRow(color) == IF color = "WHITE" THEN 0 ELSE board_height - 1

(* C4: when a standard move relocates a pawn onto the row farthest from its *)
(* start, the destination holds a Queen of the pawn's color afterwards, in  *)
(* whatever column.                                                         *)
C4_Promotion ==
    [][(/\ MakeMoveCalled
        /\ last_move'.special_tag # "castle"
        /\ board[last_move'.from_location].piece = "PAWN"
        /\ last_move'.to_location[1] = FarRow(board[last_move'.from_location].color))
       => /\ board'[last_move'.to_location].piece = "QUEEN"
          /\ board'[last_move'.to_location].color = board[last_move'.from_location].color]_vars

(* A pawn has captured onto its farthest row and a Queen of its color       *)
(* stands there.                                                            *)
C4_Witness ==
    /\ last_move.captured_piece.captured_by.piece = "PAWN"
    /\ last_move.to_location[1] = FarRow(last_move.captured_piece.captured_by.color)
    /\ board[last_move.to_location].piece = "QUEEN"
    /\ board[last_move.to_location].color = last_move.captured_piece.captured_by.color

(* C5: a standard move turns the relocated occupant into a Queen only if it *)
(* is a Pawn arriving on row 0 or row height-1; in every other case the     *)
(* occupant at `to` has the kind of the occupant that stood on `from`.      *)
C5_OnlyPawnsPromote ==
    [][(/\ MakeMoveCalled
        /\ last_move'.special_tag # "castle"
        /\ ~(/\ board[last_move'.from_location].piece = "PAWN"
             /\ last_move'.to_location[1] \in {0, board_height - 1}))
       => board'[last_move'.to_location].piece = board[last_move'.from_location].piece]_vars

(* C6: after a Black pawn has just advanced two squares and stands beside a *)
(* White pawn, find_legal_moves on the White pawn offers a move to the      *)
(* square behind the Black pawn whose capture_location is the Black pawn's  *)
(* square; applying it empties that square, puts the White pawn on `to`     *)
(* and appends the Black pawn to captured_pieces.                           *)
C6_EnPassant ==
    \A sq \in Squares : \A side \in {-1, 1} :
        (/\ board[sq].piece = "PAWN"
         /\ board[sq].color = "WHITE"
         /\ sq[2] + side \in Cols
         /\ last_move.special_tag = ""
         /\ last_move.to_location = <<sq[1], sq[2] + side>>
         /\ last_move.from_location = <<sq[1] - 2, sq[2] + side>>
         /\ board[<<sq[1], sq[2] + side>>].piece = "PAWN"
         /\ board[<<sq[1], sq[2] + side>>].color = "BLACK")
        => LET moves == MovesFrom(sq)
           IN \E i \in 1 .. Len(moves) :
             LET move == moves[i]
                 S == make_move(State, move)
             IN /\ move.to_location = <<sq[1] - 1, sq[2] + side>>
                /\ move.capture_location = <<sq[1], sq[2] + side>>
                /\ move.capture_location # move.to_location
                /\ S.board[<<sq[1], sq[2] + side>>].piece = "EMPTY"
                /\ S.board[move.to_location].piece = "PAWN"
                /\ S.board[move.to_location].color = "WHITE"
                /\ S.board[sq].piece = "EMPTY"
                /\ Len(S.captured_pieces) = Len(captured_pieces) + 1
                /\ S.captured_pieces[Len(S.captured_pieces)].piece = "PAWN"
                /\ S.captured_pieces[Len(S.captured_pieces)].color = "BLACK"

(* A White pawn has just captured en passant: it stands on `to`, the square *)
(* beside its origin is empty and the Black pawn is the last capture.       *)
C6_Witness ==
    /\ last_move.special_tag = ""
    /\ last_move.capture_location # last_move.to_location
    /\ board[last_move.to_location].piece = "PAWN"
    /\ board[last_move.to_location].color = "WHITE"
    /\ board[last_move.capture_location].piece = "EMPTY"
    /\ captured_pieces[Len(captured_pieces)].piece = "PAWN"
    /\ captured_pieces[Len(captured_pieces)].color = "BLACK"

(* The castle moves among the moves of the king on sq.                      *)
IsKing(sq) == board[sq].piece = "KING"

(* C7: in the initial position no king is offered a castle move; whenever   *)
(* an unmoved king stands on column 4 of an edge row with its unmoved       *)
(* king-side rook in the corner and the two squares between them empty,     *)
(* find_legal_moves on the king offers a castle move two columns to the     *)
(* right, and applying it puts the king on `to`, the rook on to.col - 1,    *)
(* empties the king's origin and the corner, and marks both as moved.       *)
C7_KingSideCastle ==
    /\ move_list = <<>> =>
          \A sq \in Squares : IsKing(sq) =>
              \A i \in 1 .. Len(MovesFrom(sq)) : MovesFrom(sq)[i].special_tag # "castle"
    /\ \A row \in {0, board_height - 1} :
          (/\ board[<<row, 4>>].piece = "KING"
           /\ ~board[<<row, 4>>].has_moved
           /\ board[<<row, 5>>].piece = "EMPTY"
           /\ board[<<row, 6>>].piece = "EMPTY"
           /\ board[<<row, 7>>].piece = "ROOK"
           /\ board[<<row, 7>>].color = board[<<row, 4>>].color
           /\ ~board[<<row, 7>>].has_moved)
          => LET moves == MovesFrom(<<row, 4>>)
             IN \E i \in 1 .. Len(moves) :
                  LET S == make_move(State, moves[i])
                  IN /\ moves[i].special_tag = "castle"
                     /\ moves[i].from_location = <<row, 4>>
                     /\ moves[i].to_location = <<row, 6>>
                     /\ S.board[<<row, 6>>] =
                           [board[<<row, 4>>] EXCEPT !.has_moved = TRUE]
                     /\ S.board[<<row, 5>>] =
                           [board[<<row, 7>>] EXCEPT !.has_moved = TRUE]
                     /\ S.board[<<row, 4>>].piece = "EMPTY"
                     /\ S.board[<<row, 7>>].piece = "EMPTY"

(* A king has castled king-side: king and rook stand side by side, both     *)
(* moved, and the squares they came from are empty.                         *)
C7_Witness ==
    /\ last_move.special_tag = "castle"
    /\ last_move.to_location[2] = last_move.from_location[2] + 2
    /\ board[last_move.to_location].piece = "KING"
    /\ board[last_move.to_location].has_moved
    /\ board[<<last_move.to_location[1], 5>>].piece = "ROOK"
    /\ board[<<last_move.to_location[1], 5>>].has_moved
    /\ board[last_move.from_location].piece = "EMPTY"
    /\ board[<<last_move.to_location[1], 7>>].piece = "EMPTY"

(* The column of the corner a castle move heads for.                        *)
CornerOf(move) ==
    IF move.to_location[2] > move.from_location[2] THEN board_width - 1 ELSE 0

(* The columns strictly between a and b.                                    *)
Between(a, b) == {c \in Cols : (a < c /\ c < b) \/ (b < c /\ c < a)}

(* C8: find_legal_moves returns a castle move for a king only if the king   *)
(* is unmoved on column 4 of row 0 or the last row, every square strictly   *)
(* between king and corner is Empty, and the corner holds an unmoved Rook   *)
(* of the king's color.                                                     *)
C8_CastleNeedsRook ==
    \A sq \in Squares : IsKing(sq) =>
        LET moves == MovesFrom(sq)
        IN \A i \in 1 .. Len(moves) :
             moves[i].special_tag = "castle" =>
                /\ sq[2] = 4
                /\ sq[1] \in {0, board_height - 1}
                /\ ~board[sq].has_moved
                /\ \A c \in Between(sq[2], CornerOf(moves[i])) :
                      board[<<sq[1], c>>].piece = "EMPTY"
                /\ board[<<sq[1], CornerOf(moves[i])>>].piece = "ROOK"
                /\ board[<<sq[1], CornerOf(moves[i])>>].color = board[sq].color
                /\ ~board[<<sq[1], CornerOf(moves[i])>>].has_moved

(* The occupant that started on square sq has been relocated or captured:   *)
(* some applied move left from sq, captured on sq, or was a castle that     *)
(* took the rook out of sq.                                                 *)
Departed(sq) ==
    \E i \in 1 .. Len(move_list) :
        \/ move_list[i].from_location = sq
        \/ /\ move_list[i].captured_piece.piece # "EMPTY"
           /\ move_list[i].capture_location = sq
        \/ /\ move_list[i].special_tag = "castle"
           /\ <<move_list[i].to_location[1], CornerOf(move_list[i])>> = sq

(* The color that starts on an edge row.                                    *)
HomeColor(row) == IF row = 0 THEN "BLACK" ELSE "WHITE"

(* C9: once a color's king, or the rook that started on one of its corners, *)
(* has been relocated (or that rook captured), find_legal_moves never again *)
(* returns a castle move toward that corner for that color.                 *)
C9_NoCastleAfterMoving ==
    \A row \in {0, board_height - 1} : \A corner \in {0, board_width - 1} :
        (Departed(<<row, 4>>) \/ Departed(<<row, corner>>)) =>
            \A sq \in Squares :
                (IsKing(sq) /\ board[sq].color = HomeColor(row)) =>
                    LET moves == MovesFrom(sq)
                    IN \A i \in 1 .. Len(moves) :
                         ~(/\ moves[i].special_tag = "castle"
                           /\ CornerOf(moves[i]) = corner)

(* C10: find_legal_moves(row, col) returns the empty list, and does not     *)
(* raise, whenever (row, col) lies outside the grid or the occupant there   *)
(* is Empty.                                                                *)
C10_EmptyResult ==
    (/\ query # <<>>
     /\ (query \notin Squares \/ board[query].piece = "EMPTY"))
    => legal_moves = <<>>

(* find_legal_moves has been called with row -1, which as a list index      *)
(* would select the White back rank, and has returned the empty list.       *)
C10_Witness ==
    /\ query # <<>>
    /\ query[1] = -1
    /\ query[2] \in Cols
    /\ At(board, query[1], query[2]).piece # "EMPTY"
    /\ legal_moves = <<>>

(* The occupant now on sq arrived there by the i-th move of the history and *)
(* no later move touched the square.                                        *)
ArrivedAt(sq) ==
    \E i \in 1 .. Len(move_list) :
        /\ move_list[i].to_location = sq
        /\ move_list[i].special_tag # "castle"
        /\ \A j \in (i + 1) .. Len(move_list) :
               sq \notin {move_list[j].to_location, move_list[j].from_location,
                          move_list[j].capture_location}

Abs(n) == IF n < 0 THEN 0 - n ELSE n

Range(s) == {s[i] : i \in 1 .. Len(s)}

(* C11: in the standard starting position find_legal_moves on each White    *)
(* pawn's home square returns exactly the one-square and the two-square     *)
(* advance; a pawn that make_move has moved gets, from its new square, at   *)
(* most one non-capturing forward move and never a two-square advance.      *)
C11_PawnAdvance ==
    /\ move_list = <<>> =>
           \A c \in Cols :
               MovesFrom(<<board_height - 2, c>>)
                   = << Move(<<board_height - 3, c>>, <<board_height - 2, c>>, NoCapture),
                        Move(<<board_height - 4, c>>, <<board_height - 2, c>>, NoCapture) >>
    /\ \A sq \in Squares :
           (board[sq].piece = "PAWN" /\ ArrivedAt(sq)) =>
               LET moves == MovesFrom(sq)
               IN /\ Cardinality({i \in 1 .. Len(moves) :
                                     moves[i].to_location[2] = sq[2]}) <= 1
                  /\ \A i \in 1 .. Len(moves) :
                         Abs(moves[i].to_location[1] - sq[1]) # 2

C11_Witness ==
    /\ move_list # <<>>
    /\ board[last_move.to_location].piece = "PAWN"
    /\ ArrivedAt(last_move.to_location)
    /\ \E m \in Range(MovesFrom(last_move.to_location)) :
           /\ m.to_location[2] = last_move.to_location[2]
           /\ m.captured_piece.piece = "EMPTY"

Others(sq) == {s \in Squares \ {sq} : board[s].piece # "EMPTY"}

SameLine(a, s) == s # a /\ (s[1] = a[1] \/ s[2] = a[2])

(* blk lies strictly between a and s on their common row or column.         *)
Behind(a, blk, s) ==
    \/ /\ a[1] = blk[1] /\ blk[1] = s[1]
       /\ \/ a[2] < blk[2] /\ blk[2] < s[2]
          \/ s[2] < blk[2] /\ blk[2] < a[2]
    \/ /\ a[2] = blk[2] /\ blk[2] = s[2]
       /\ \/ a[1] < blk[1] /\ blk[1] < s[1]
          \/ s[1] < blk[1] /\ blk[1] < a[1]

(* C12: a Rook alone on the grid gets exactly (height - 1) + (width - 1)    *)
(* moves, none a capture; with one piece of its own color on a ray the      *)
(* moves are the same minus the blocker's square and the squares behind it; *)
(* with one enemy piece on a ray they are the same minus the squares behind *)
(* it, and the move onto the blocker's square is the only capture and       *)
(* carries a copy of the blocker.                                           *)
C12_RookMoves ==
    (query # <<>> /\ board[query].piece = "ROOK") =>
        LET dests == {m.to_location : m \in Range(legal_moves)}
            line  == {s \in Squares : SameLine(query, s)}
        IN /\ Len(legal_moves) = Cardinality(dests)
           /\ \A m \in Range(legal_moves) :
                  m.from_location = query /\ m.capture_location = m.to_location
           /\ Others(query) = {} =>
                  /\ Len(legal_moves) = (board_height - 1) + (board_width - 1)
                  /\ \A m \in Range(legal_moves) : m.captured_piece = NoCapture
           /\ \A blk \in Others(query) :
                  Others(query) = {blk} =>
                      IF board[blk].color = board[query].color
                      THEN /\ dests = {s \in line : s # blk /\ ~Behind(query, blk, s)}
                           /\ \A m \in Range(legal_moves) : m.captured_piece = NoCapture
                      ELSE /\ dests = {s \in line : ~Behind(query, blk, s)}
                           /\ \A m \in Range(legal_moves) :
                                  m.captured_piece = IF m.to_location = blk
                                                     THEN deepcopy(board[blk])
                                                     ELSE NoCapture

C12_Witness ==
    /\ query # <<>>
    /\ board[query].piece = "ROOK"
    /\ \E blk \in Squares :
           /\ Others(query) = {blk}
           /\ board[blk].color # board[query].color
           /\ \E s \in Squares : Behind(query, blk, s)
           /\ \E m \in Range(legal_moves) : m.to_location = blk

(* The square the rook of a castle move lands on (chess.py 586 and 591).    *)
RookTarget(move) ==
    IF move.to_location[2] < move.from_location[2]
    THEN <<move.to_location[1], move.to_location[2] + 1>>
    ELSE <<move.to_location[1], move.to_location[2] - 1>>

(* C13: immediately after make_move the occupant on the move's to square,   *)
(* and for a castle the occupant on the rook's new square, has has_moved    *)
(* true.                                                                    *)
C13_HasMovedKept ==
    move_list # <<>> =>
        /\ board[last_move.to_location].has_moved
        /\ last_move.special_tag = "castle" => board[RookTarget(last_move)].has_moved

(* A pawn's move onto an Empty square of a neighbouring column.             *)
EnPassantShape(m) ==
    /\ board[m.from_location].piece = "PAWN"
    /\ m.to_location[2] # m.from_location[2]
    /\ board[m.to_location].piece = "EMPTY"

(* C14: every move find_legal_moves returns in a reachable state has        *)
(* capture_location equal to to_location, except an en passant move, whose  *)
(* capture_location is the square on the mover's own row in the column of   *)
(* to_location; every entry of move_list has one of these two forms.        *)
C14_CaptureSquare ==
    /\ \A sq \in Squares :
           LET moves == MovesFrom(sq)
           IN \A i \in 1 .. Len(moves) :
                  LET m == moves[i]
                  IN /\ m.from_location = sq
                     /\ IF EnPassantShape(m)
                        THEN /\ m.capture_location = <<sq[1], m.to_location[2]>>
                             /\ m.capture_location # m.to_location
                        ELSE m.capture_location = m.to_location
    /\ \A i \in 1 .. Len(move_list) :
           LET e == move_list[i]
           IN \/ e.capture_location = e.to_location
              \/ /\ e.capture_location = <<e.from_location[1], e.to_location[2]>>
                 /\ e.capture_location # e.to_location
                 /\ e.captured_piece.piece = "PAWN"
                 /\ e.captured_piece.captured_by.piece = "PAWN"

C14_Witness ==
    /\ move_list # <<>>
    /\ last_move.capture_location = <<last_move.from_location[1], last_move.to_location[2]>>
    /\ last_move.capture_location # last_move.to_location
    /\ last_move.captured_piece.color = "WHITE"
    /\ \E sq \in Squares : \E m \in Range(MovesFrom(sq)) :
           m.captured_piece.piece # "EMPTY" /\ m.capture_location = m.to_location

Pieces == {"EMPTY", "PAWN", "KNIGHT", "BISHOP", "ROOK", "QUEEN", "KING"}

Colors == {"NONE", "WHITE", "BLACK"}

(* C15: the grid has one occupant on every square, and an occupant's color  *)
(* is None exactly when its kind is Empty.                                  *)
C15_OccupantShape ==
    /\ DOMAIN board = Squares
    /\ \A sq \in Squares :
           /\ board[sq].piece \in Pieces
           /\ board[sq].color \in Colors
           /\ board[sq].has_moved \in BOOLEAN
           /\ (board[sq].color = "NONE") <=> (board[sq].piece = "EMPTY")

C15_Witness ==
    /\ move_list # <<>>
    /\ last_move.to_location[1] \in {0, board_height - 1}
    /\ board[last_move.to_location].piece = "QUEEN"
    /\ ~board[last_move.to_location].has_moved
    /\ board[last_move.from_location] = EmptyPiece

(* C16: a board constructed with default arguments starts in the standard   *)
(* position with empty histories even when another default-constructed      *)
(* board has had moves applied, and a move applied to the second instance   *)
(* changes neither the grid nor the histories of the first.                 *)
C16_IndependentBoards ==
    [][ /\ (~other_board.constructed /\ other_board'.constructed) =>
               /\ board' = DEFAULT_BOARD
               /\ captured_pieces' = <<>>
               /\ move_list' = <<>>
        /\ (other_board.constructed /\ other_board' # other_board) =>
               UNCHANGED <<board, captured_pieces, move_list>> ]_vars

(* The union of find_legal_moves over the squares of the player to move.    *)
OwnMoves ==
    UNION {Range(MovesFrom(sq)) : sq \in {s \in Squares : board[s].color = Color(curr_player)}}

(* C17: whenever the player to move has at least one pseudo-legal move,     *)
(* get_move of either bot returns a move, and that move is one of the moves *)
(* find_legal_moves returns for a square of the player's color.             *)
C17_BotReturnsOwnMove ==
    [][ OwnMoves # {} => bot_move' \in OwnMoves ]_vars

(* The moves find_legal_moves returns for sq when its occupant is turned    *)
(* into a piece of the given kind, everything else kept.                    *)
MovesAs(kind, sq) ==
    Range(find_legal_moves(Place(board, sq, [board[sq] EXCEPT !.piece = kind]),
                           last_move, sq[1], sq[2]))

(* C18: the moves of a Queen are, without repetition, the moves a Rook of   *)
(* the same color on its square would get together with the moves a Bishop *)
(* of the same color on its square would get, with the same destinations    *)
(* and capture data.                                                        *)
C18_QueenMoves ==
    (query # <<>> /\ board[query].piece = "QUEEN") =>
        /\ Range(legal_moves) = MovesAs("ROOK", query) \cup MovesAs("BISHOP", query)
        /\ Len(legal_moves) = Cardinality(Range(legal_moves))

C18_Witness ==
    /\ query # <<>>
    /\ board[query].piece = "QUEEN"
    /\ \E m \in MovesAs("BISHOP", query) : m.captured_piece.piece = "PAWN"
    /\ \E m \in Range(legal_moves) :
           m.to_location[1] = query[1] /\ m.captured_piece.piece = "EMPTY"

KnightOffsets ==
    {<<-1, -2>>, <<-2, -1>>, <<-1, 2>>, <<-2, 1>>, <<1, -2>>, <<2, -1>>, <<1, 2>>, <<2, 1>>}

KingOffsets == ((-1 .. 1) \X (-1 .. 1)) \ {<<0, 0>>}

(* One move per offset whose target is on the grid and holds an occupant of *)
(* another color than the mover's, carrying a copy of that occupant.        *)
StepMoves(sq, offsets) ==
    { Move(<<sq[1] + o[1], sq[2] + o[2]>>, sq, deepcopy(board[<<sq[1] + o[1], sq[2] + o[2]>>])) :
          o \in {d \in offsets : /\ <<sq[1] + d[1], sq[2] + d[2]>> \in Squares
                                 /\ board[<<sq[1] + d[1], sq[2] + d[2]>>].color # board[sq].color} }

NotCastle(m) == m.special_tag # "castle"

(* C19: a Knight gets exactly one move per each of its eight offsets whose  *)
(* target is on the board and whose occupant's color differs from the       *)
(* mover's, and so does a King, castle moves aside; the move carries a copy *)
(* of the target's occupant, which is Empty for an Empty target.            *)
C19_StepPieces ==
    /\ (query # <<>> /\ board[query].piece = "KNIGHT") =>
           /\ Range(legal_moves) = StepMoves(query, KnightOffsets)
           /\ Len(legal_moves) = Cardinality(StepMoves(query, KnightOffsets))
    /\ (query # <<>> /\ board[query].piece = "KING") =>
           LET steps == SelectSeq(legal_moves, NotCastle)
           IN /\ Range(steps) = StepMoves(query, KingOffsets)
              /\ Len(steps) = Cardinality(StepMoves(query, KingOffsets))
    /\ \A m \in Range(legal_moves) :
           (board[query].piece \in {"KNIGHT", "KING"} /\ NotCastle(m)) =>
               (m.captured_piece.piece = "EMPTY") <=> (board[m.to_location].piece = "EMPTY")

C19_Witness ==
    /\ query # <<>>
    /\ board[query].piece \in {"KNIGHT", "KING"}
    /\ \E m \in Range(legal_moves) : m.captured_piece.piece = "PAWN"
    /\ \E m \in Range(legal_moves) : m.captured_piece.piece = "EMPTY" /\ NotCastle(m)
    /\ Len(legal_moves) < Cardinality(KnightOffsets)

(* C20: a move whose capture_location differs from its to_location is      *)
(* generated only for a pawn, only when the latest move of the history was  *)
(* a two-square advance of an enemy pawn that landed beside it on its row,  *)
(* and only onto the Empty square that pawn passed over; so it is on offer  *)
(* on the one ply after that advance only.  No other move of the same list  *)
(* goes to the same square.                                                 *)
C20_EnPassantOffer ==
    \A sq \in Squares :
        LET moves == MovesFrom(sq)
        IN \A i \in 1 .. Len(moves) :
               LET m == moves[i]
               IN m.capture_location # m.to_location =>
                      /\ board[sq].piece = "PAWN"
                      /\ move_list # <<>>
                      /\ last_move = move_list[Len(move_list)]
                      /\ last_move.special_tag = ""
                      /\ last_move.to_location = m.capture_location
                      /\ m.capture_location = <<sq[1], m.to_location[2]>>
                      /\ Abs(m.to_location[2] - sq[2]) = 1
                      /\ Abs(m.to_location[1] - sq[1]) = 1
                      /\ last_move.from_location[2] = last_move.to_location[2]
                      /\ Abs(last_move.from_location[1] - last_move.to_location[1]) = 2
                      /\ 2 * m.to_location[1]
                             = last_move.from_location[1] + last_move.to_location[1]
                      /\ board[last_move.to_location].piece = "PAWN"
                      /\ board[last_move.to_location].color \notin {"NONE", board[sq].color}
                      /\ m.captured_piece = deepcopy(board[last_move.to_location])
                      /\ board[m.to_location].piece = "EMPTY"
                      /\ \A j \in 1 .. Len(moves) :
                             j # i => moves[j].to_location # m.to_location

C20_Witness ==
    /\ move_list # <<>>
    /\ \E sq \in Squares : \E m \in Range(MovesFrom(sq)) :
           /\ m.capture_location # m.to_location
           /\ board[sq].color = Color(curr_player)
           /\ m.captured_piece.piece = "PAWN"
           /\ last_move.to_location = m.capture_location

(* C21: when make_move applies a move that carries a non-Empty              *)
(* captured_piece, the entry appended to captured_pieces has the kind and   *)
(* color of the occupant of capture_location before the move, and its       *)
(* captured_by is the occupant of from_location before the move; every      *)
(* entry of captured_pieces is non-Empty and its captured_by is a non-Empty *)
(* piece of the other color.                                                *)
C21_CapturedBy ==
    /\ [](\A i \in 1 .. Len(captured_pieces) :
              LET e == captured_pieces[i]
              IN /\ e.piece \in Pieces \ {"EMPTY"}
                 /\ e.color \in PlayerColors
                 /\ e.captured_by.piece \in Pieces \ {"EMPTY"}
                 /\ e.captured_by.color \in PlayerColors \ {e.color})
    /\ [][(MakeMoveCalled /\ last_move'.captured_piece.piece # "EMPTY") =>
              LET e == captured_pieces'[Len(captured_pieces')]
                  victim == board[last_move'.capture_location]
                  mover == board[last_move'.from_location]
              IN /\ Len(captured_pieces') = Len(captured_pieces) + 1
                 /\ e.piece = victim.piece
                 /\ e.color = victim.color
                 /\ e.captured_by.piece = mover.piece
                 /\ e.captured_by.color = mover.color
                 /\ e.captured_by.has_moved = mover.has_moved]_vars

C21_Witness ==
    /\ Len(captured_pieces) >= 1
    /\ last_move.captured_piece.piece # "EMPTY"
    /\ captured_pieces[Len(captured_pieces)].captured_by.piece = "PAWN"
    /\ captured_pieces[Len(captured_pieces)].piece \notin {"EMPTY", "PAWN"}

SameMove(a, m) ==
    /\ a.to_location = m.to_location
    /\ a.from_location = m.from_location
    /\ a.capture_location = m.capture_location
    /\ a.special_tag = m.special_tag

(* C22: after make_move, last_move has the to_location, from_location,      *)
(* capture_location and special_tag of the move applied and of the final    *)
(* entry of move_list; before the first move last_move is the move from     *)
(* (-1, -1) to (-1, -1), and with that last_move no generator yields an en  *)
(* passant move.                                                            *)
C22_LastMove ==
    /\ move_list = <<>> =>
           /\ last_move.to_location = <<-1, -1>>
           /\ last_move.from_location = <<-1, -1>>
    /\ move_list # <<>> => SameMove(last_move, move_list[Len(move_list)])
    /\ \A sq \in Squares :
           /\ LET moves == MovesFrom(sq)
              IN \A i \in 1 .. Len(moves) :
                     LET S == make_move(State, moves[i])
                     IN /\ SameMove(S.last_move, moves[i])
                        /\ SameMove(S.last_move, S.move_list[Len(S.move_list)])
                        /\ Len(S.move_list) = Len(move_list) + 1
           /\ LET first == find_legal_moves(board, NoMove, sq[1], sq[2])
              IN \A i \in 1 .. Len(first) :
                     first[i].capture_location = first[i].to_location

C22_Witness ==
    /\ Len(move_list) > 1
    /\ last_move.capture_location # last_move.to_location
    /\ SameMove(last_move, move_list[Len(move_list)])
    /\ \E sq \in Squares : board[sq].piece = "PAWN" /\ MovesFrom(sq) # <<>>

Material(b) == Cardinality({sq \in Squares : b[sq].piece # "EMPTY"})

(* C24: in every state reached from the standard start the number of        *)
(* non-Empty squares plus the length of captured_pieces is 32; a make_move  *)
(* whose move carries a non-Empty captured_piece lowers the number of       *)
(* non-Empty squares by exactly one, and every other make_move, a castle    *)
(* included, leaves it unchanged.                                           *)
C24_MaterialConserved ==
    /\ [](Material(board) + Len(captured_pieces) = 32)
    /\ [][MakeMoveCalled =>
              IF last_move'.captured_piece.piece # "EMPTY"
              THEN Material(board') = Material(board) - 1
              ELSE Material(board') = Material(board)]_vars

C24_Witness ==
    /\ Len(captured_pieces) = 2
    /\ Material(board) = 30
    /\ last_move.captured_piece.piece # "EMPTY"

(* The number of Kings of a color on the grid and in captured_pieces.       *)
Kings(color) ==
    Cardinality({sq \in Squares : board[sq].piece = "KING" /\ board[sq].color = color})
    + Cardinality({i \in 1 .. Len(captured_pieces) :
                       captured_pieces[i].piece = "KING" /\ captured_pieces[i].color = color})

(* C25: in every state reached from the standard start, for each color the  *)
(* number of Kings of that color on the grid plus the number of Kings of    *)
(* that color in captured_pieces is 1.                                      *)
C25_OneKing == \A color \in PlayerColors : Kings(color) = 1

(* C26: in every state reached from the standard start no Pawn stands on    *)
(* row 0 or on the last row, and every Pawn whose has_moved is false stands *)
(* on its color's home row: row 1 for Black, the last row but one for       *)
(* White.                                                                   *)
C26_PawnRows ==
    \A sq \in Squares :
        board[sq].piece = "PAWN" =>
            /\ sq[1] \notin {0, board_height - 1}
            /\ ~board[sq].has_moved =>
                   sq[1] = (IF board[sq].color = "BLACK" THEN 1 ELSE board_height - 2)

C26_Witness ==
    /\ move_list # <<>>
    /\ last_move.to_location[1] \in {0, board_height - 1}
    /\ last_move.from_location[1] \in {1, board_height - 2}
    /\ last_move.from_location[1] # last_move.to_location[1]
    /\ board[last_move.to_location].piece = "QUEEN"
    /\ \E sq \in Squares : board[sq].piece = "PAWN" /\ board[sq].has_moved
    /\ \E sq \in Squares : board[sq].piece = "PAWN" /\ ~board[sq].has_moved

(* C27: for every non-castle move find_legal_moves returns in a reachable   *)
(* state, from_location is the queried square, to_location is on the grid   *)
(* and not occupied by a piece of the mover's color, and captured_piece has *)
(* the kind and color of the occupant of capture_location; applying the     *)
(* move appends to captured_pieces exactly that occupant when it is a       *)
(* piece, nothing otherwise, and takes it off its square.                   *)
C27_GeneratedMoves ==
    \A sq \in Squares :
        LET moves == MovesFrom(sq)
        IN \A i \in 1 .. Len(moves) :
               LET m == moves[i]
                   S == make_move(State, m)
                   victim == board[m.capture_location]
               IN m.special_tag # "castle" =>
                      /\ m.from_location = sq
                      /\ m.to_location \in Squares
                      /\ m.capture_location \in Squares
                      /\ board[m.to_location].color # board[sq].color
                      /\ m.captured_piece.piece = victim.piece
                      /\ m.captured_piece.color = victim.color
                      /\ IF victim.piece = "EMPTY"
                         THEN S.captured_pieces = captured_pieces
                         ELSE /\ Len(S.captured_pieces) = Len(captured_pieces) + 1
                              /\ S.captured_pieces[Len(S.captured_pieces)].piece = victim.piece
                              /\ S.captured_pieces[Len(S.captured_pieces)].color = victim.color
                              /\ S.board[m.capture_location].color # victim.color
                      /\ Material(S.board) = Material(board) - (IF victim.piece = "EMPTY" THEN 0 ELSE 1)

C27_Witness ==
    \E sq \in Squares :
        /\ board[sq].piece \in {"KNIGHT", "BISHOP", "ROOK", "QUEEN", "KING"}
        /\ \E m \in Range(MovesFrom(sq)) :
               m.captured_piece.piece # "EMPTY" /\ m.special_tag # "castle"
        /\ \E m \in Range(MovesFrom(sq)) : m.captured_piece.piece = "EMPTY"

====
